---- MODULE Spec2Model ----
(***************************************************************************)
(* Timeline geometry and renewal projection of the subscription manager:   *)
(* getTimelineRange / getPositionPercentage / getWidthPercentage           *)
(* (utils/dateHelpers) and the per-row computation of SubscriptionRow      *)
(* (components/Timeline.tsx).                                              *)
(*                                                                         *)
(* Dates are modelled at the granularity of one local calendar day, as     *)
(* records [y, m, d]; the time of day of the clock is dropped.  A          *)
(* percentage is an exact rational with denominator totalDays: Fin(n)      *)
(* stands for (n / totalDays) * 100, so floating point rounding is not     *)
(* modelled, while the IEEE results of a division by totalDays = 0         *)
(* (Infinity, NaN) are.                                                    *)
(***************************************************************************)
EXTENDS Integers, Sequences, FiniteSets, TLC

(***************************************************************************)
(* Calendar (date-fns)                                                     *)
(***************************************************************************)

\* BillingCycle enum
MONTHLY == "Monthly"
YEARLY == "Yearly"
BillingCycle == {MONTHLY, YEARLY}

\* endDate: null (ongoing)
NullDate == [y |-> 0, m |-> 0, d |-> 0]
\* new Date(NaN): the Invalid Date
InvalidDate == [y |-> -1, m |-> 0, d |-> 0]

MkDate(y, m, d) == [y |-> y, m |-> m, d |-> d]

isValid(dt) == dt # InvalidDate /\ dt # NullDate

IsLeap(y) == (y % 4 = 0 /\ y % 100 # 0) \/ y % 400 = 0

getDaysInMonth(y, m) ==
    IF m = 2 THEN (IF IsLeap(y) THEN 29 ELSE 28)
    ELSE IF m \in {4, 6, 9, 11} THEN 30 ELSE 31

\* days of the year before the first of month m
DaysBeforeMonth(y, m) ==
    LET cum == <<0, 31, 59, 90, 120, 151, 181, 212, 243, 273, 304, 334>>
    IN cum[m] + (IF m > 2 /\ IsLeap(y) THEN 1 ELSE 0)

\* day number of a valid date (days since 0001-01-01, proleptic Gregorian)
ToDays(dt) ==
    LET p == dt.y - 1
    IN 365 * p + (p \div 4) - (p \div 100) + (p \div 400)
       + DaysBeforeMonth(dt.y, dt.m) + (dt.d - 1)

\* a < b on Date objects: false when either side is the Invalid Date (NaN)
DateLT(a, b) == isValid(a) /\ isValid(b) /\ ToDays(a) < ToDays(b)
\* a <= b on Date objects
DateLE(a, b) == isValid(a) /\ isValid(b) /\ ToDays(a) <= ToDays(b)

\* date-fns addMonths: same day of month, clamped to the target month's end
addMonths(dt, n) ==
    IF ~isValid(dt) THEN InvalidDate
    ELSE LET total == dt.y * 12 + (dt.m - 1) + n
             ny == total \div 12
             nm == (total % 12) + 1
             dim == getDaysInMonth(ny, nm)
         IN MkDate(ny, nm, IF dt.d > dim THEN dim ELSE dt.d)

subMonths(dt, n) == addMonths(dt, 0 - n)

startOfMonth(dt) == IF ~isValid(dt) THEN InvalidDate ELSE MkDate(dt.y, dt.m, 1)

\* date-fns differenceInDays on valid whole-day dates
differenceInDays(a, b) == ToDays(a) - ToDays(b)

(***************************************************************************)
(* Percentages (IEEE doubles over the common denominator totalDays)        *)
(***************************************************************************)
Fin(n) == [k |-> "fin", n |-> n]
PInf == [k |-> "inf", n |-> 0]
PNaN == [k |-> "nan", n |-> 0]

\* (n / totalDays) * 100
PctOfDays(n, totalDays) ==
    IF totalDays # 0 THEN Fin(n)
    ELSE IF n = 0 THEN PNaN
    ELSE PInf

\* a + b
PAdd(a, b) ==
    IF a.k = "nan" \/ b.k = "nan" THEN PNaN
    ELSE IF a.k = "inf" \/ b.k = "inf" THEN PInf
    ELSE Fin(a.n + b.n)

\* a - b
PSub(a, b) ==
    IF a.k = "nan" \/ b.k = "nan" THEN PNaN
    ELSE IF a.k = "inf" /\ b.k = "inf" THEN PNaN
    ELSE IF a.k = "inf" THEN PInf
    ELSE Fin(a.n - b.n)

\* a < b
PLess(a, b) ==
    IF a.k = "nan" \/ b.k = "nan" THEN FALSE
    ELSE IF a.k = "inf" THEN FALSE
    ELSE IF b.k = "inf" THEN TRUE
    ELSE a.n < b.n

\* Math.min(a, b)
PMin(a, b) ==
    IF a.k = "nan" \/ b.k = "nan" THEN PNaN
    ELSE IF PLess(b, a) THEN b ELSE a

(***************************************************************************)
(* utils/dateHelpers                                                       *)
(***************************************************************************)

\* variant: the loop stops before the end month (current < end)
RECURSIVE MonthsLoop_exclusive(_, _, _)
MonthsLoop_exclusive(current, end, months) ==
    IF DateLT(current, end)
    THEN MonthsLoop_exclusive(addMonths(current, 1), end, Append(months, current))
    ELSE months

RECURSIVE MonthsLoop(_, _, _)
\* while (current <= end) { months.push(current); current = addMonths(current, 1) }
MonthsLoop(current, end, months) ==
    IF DateLE(current, end)
    THEN MonthsLoop(addMonths(current, 1), end, Append(months, current))
    ELSE months

\* variant: the default end is twelve months ahead instead of thirteen
getTimelineRange_twelve(customStart, customEnd, now) ==
    LET s == IF customStart # NullDate THEN startOfMonth(customStart)
             ELSE startOfMonth(subMonths(now, 1))
        e == IF customEnd # NullDate THEN startOfMonth(customEnd)
             ELSE startOfMonth(addMonths(now, 12))
    IN [start |-> s, end |-> e, months |-> MonthsLoop(s, e, <<>>)]

\* getTimelineRange(customStart?, customEnd?); an omitted argument is NullDate
getTimelineRange(customStart, customEnd, now) ==
    LET s == IF customStart # NullDate THEN startOfMonth(customStart)
             ELSE startOfMonth(subMonths(now, 1))
        e == IF customEnd # NullDate THEN startOfMonth(customEnd)
             ELSE startOfMonth(addMonths(now, 13))
    IN [start |-> s, end |-> e, months |-> MonthsLoop(s, e, <<>>)]

\* variant: without the early return for a date before the window
getPositionPercentage_noClamp(date, timelineStart, totalDays) ==
    IF ~isValid(date) \/ ~isValid(timelineStart) THEN PNaN
    ELSE PctOfDays(differenceInDays(date, timelineStart), totalDays)

\* getPositionPercentage(date, timelineStart, totalDays)
getPositionPercentage(date, timelineStart, totalDays) ==
    IF DateLT(date, timelineStart) THEN Fin(0)
    ELSE IF ~isValid(date) THEN PNaN
    ELSE PctOfDays(differenceInDays(date, timelineStart), totalDays)

\* variant: the duration without the added day
WidthDays_exclusive(durationDays) == durationDays

\* the addend of "Add 1 day so single day events have width"
WidthDays(durationDays) == durationDays + 1

\* variant: the end date is not clamped to the end of the window
getWidthPercentage_noEndClamp(start, end, timelineStart, timelineEnd, totalDays) ==
    LET effectiveStart == IF DateLT(start, timelineStart) THEN timelineStart ELSE start
        effectiveEnd == IF end = NullDate THEN timelineEnd ELSE end
    IN IF DateLT(effectiveEnd, effectiveStart) THEN Fin(0)
       ELSE IF ~isValid(effectiveEnd) \/ ~isValid(effectiveStart) THEN PNaN
       ELSE PctOfDays(WidthDays(differenceInDays(effectiveEnd, effectiveStart)), totalDays)

\* variant: without the early return for an interval outside the window
getWidthPercentage_noEmptyCheck(start, end, timelineStart, timelineEnd, totalDays) ==
    LET effectiveStart == IF DateLT(start, timelineStart) THEN timelineStart ELSE start
        effectiveEnd == IF end = NullDate \/ DateLT(timelineEnd, end)
                        THEN timelineEnd ELSE end
    IN IF ~isValid(effectiveEnd) \/ ~isValid(effectiveStart) THEN PNaN
       ELSE PctOfDays(WidthDays(differenceInDays(effectiveEnd, effectiveStart)), totalDays)

\* getWidthPercentage(start, end, timelineStart, timelineEnd, totalDays)
getWidthPercentage(start, end, timelineStart, timelineEnd, totalDays) ==
    LET effectiveStart == IF DateLT(start, timelineStart) THEN timelineStart ELSE start
        effectiveEnd == IF end = NullDate \/ DateLT(timelineEnd, end)
                        THEN timelineEnd ELSE end
    IN IF DateLT(effectiveEnd, effectiveStart) THEN Fin(0)
       ELSE IF ~isValid(effectiveEnd) \/ ~isValid(effectiveStart) THEN PNaN
       ELSE PctOfDays(WidthDays(differenceInDays(effectiveEnd, effectiveStart)), totalDays)

(***************************************************************************)
(* components/Timeline.tsx: SubscriptionRow                                *)
(***************************************************************************)

\* const MAX_LOOPS = 1000
MAX_LOOPS == 1000

\* 100 / 0.001: endP <= startP + 0.001 over the denominator totalDays
EpsilonScale == 100000

\* variant: the yearly cycle is stepped like the monthly one
AdvanceCycle_monthlyOnly(dt, cycle) == addMonths(dt, 1)

\* one cycle period: addMonths(d, 1) for MONTHLY, addMonths(d, 12) otherwise
AdvanceCycle(dt, cycle) ==
    IF cycle = MONTHLY THEN addMonths(dt, 1) ELSE addMonths(dt, 12)

\* variant: the loop without its iteration cap
LoopGuard_noCap(nextRenewal, loopCount, today) == DateLE(nextRenewal, today)

\* variant: nextRenewal < today instead of nextRenewal <= today
LoopGuard_strict(nextRenewal, loopCount, today) ==
    DateLT(nextRenewal, today) /\ loopCount < MAX_LOOPS

\* while (nextRenewal <= today && loopCount < MAX_LOOPS)
LoopGuard(nextRenewal, loopCount, today) ==
    DateLE(nextRenewal, today) /\ loopCount < MAX_LOOPS

\* the loop body: nextRenewal = addMonths(nextRenewal, 1 | 12); loopCount++
LoopBody(st, cycle) ==
    [nextRenewal |-> AdvanceCycle(st.nextRenewal, cycle), loopCount |-> st.loopCount + 1]

\* The while loop.  It is evaluated as a balanced recursion (2^fuel body
\* executions at most) so that the evaluation depth stays logarithmic in the
\* number of iterations; LoopFuel exceeds what any explored input needs.
RECURSIVE RenewalLoop(_, _, _, _)
RenewalLoop(fuel, st, cycle, today) ==
    IF ~LoopGuard(st.nextRenewal, st.loopCount, today) THEN st
    ELSE IF fuel = 0 THEN LoopBody(st, cycle)
    ELSE RenewalLoop(fuel - 1, RenewalLoop(fuel - 1, st, cycle, today), cycle, today)

LoopFuel == 11

\* variant: the two cycle lengths swapped
NotStartedRenewal_swapped(startDate, cycle) ==
    IF cycle = MONTHLY THEN addMonths(startDate, 12) ELSE addMonths(startDate, 1)

\* the branch taken when the subscription has not started yet
NotStartedRenewal(startDate, cycle) == AdvanceCycle(startDate, cycle)

\* nextRenewal as computed at the top of SubscriptionRow
projectNextRenewal(startDate, cycle, today) ==
    IF isValid(startDate)
    THEN IF DateLE(startDate, today)
         THEN RenewalLoop(LoopFuel, [nextRenewal |-> startDate, loopCount |-> 0], cycle, today)
         ELSE [nextRenewal |-> NotStartedRenewal(startDate, cycle), loopCount |-> 0]
    ELSE [nextRenewal |-> startDate, loopCount |-> 0]

\* visualEndDate
visualEndDateOf(sub, end, nextRenewal) ==
    IF sub.autoRenew THEN end
    ELSE IF sub.endDate = NullDate
         THEN (IF DateLT(end, nextRenewal) THEN nextRenewal ELSE end)
         ELSE sub.endDate

\* solidEndDate = sub.endDate ? sub.endDate : nextRenewal
solidEndDateOf(sub, nextRenewal) ==
    IF sub.endDate # NullDate THEN sub.endDate ELSE nextRenewal

\* if (endP <= startP + 0.001) return null
TooSmall(startP, endP, totalDays) ==
    IF startP.k = "nan" \/ endP.k = "nan" THEN FALSE
    ELSE IF startP.k = "inf" THEN TRUE
    ELSE IF endP.k = "inf" THEN FALSE
    ELSE (endP.n - startP.n) * EpsilonScale <= totalDays

\* renderBar(startP, endP, type): the emitted elements (none or one)
renderBar(startP, endP, type, totalDays) ==
    IF TooSmall(startP, endP, totalDays) THEN <<>>
    ELSE << [type |-> type, left |-> startP, width |-> PSub(endP, startP)] >>

\* the fragment returned by the bar area: both calls are unconditional
BarFragment(barStartPct, splitPct, barEndPct, totalDays) ==
    renderBar(barStartPct, splitPct, "active", totalDays)
      \o renderBar(splitPct, barEndPct, "future", totalDays)

\* everything SubscriptionRow computes for one render
SubscriptionRow(sub, start, end, totalDays, today) ==
    LET left == getPositionPercentage(sub.startDate, start, totalDays)
        width == getWidthPercentage(sub.startDate, sub.endDate, start, end, totalDays)
        proj == projectNextRenewal(sub.startDate, sub.cycle, today)
        nextRenewal == proj.nextRenewal
        visualEndDate == visualEndDateOf(sub, end, nextRenewal)
        visualWidth == getWidthPercentage(sub.startDate, visualEndDate, start, end, totalDays)
        solidEndDate == solidEndDateOf(sub, nextRenewal)
        solidEndPct == getPositionPercentage(solidEndDate, start, totalDays)
        barStartPct == left
        barEndPct == PAdd(barStartPct, visualWidth)
        splitPct == PMin(solidEndPct, barEndPct)
    IN [left |-> left, width |-> width,
        nextRenewal |-> nextRenewal, loopCount |-> proj.loopCount,
        visualEndDate |-> visualEndDate, visualWidth |-> visualWidth,
        solidEndDate |-> solidEndDate, solidEndPct |-> solidEndPct,
        barStartPct |-> barStartPct, barEndPct |-> barEndPct, splitPct |-> splitPct,
        hasActive |-> PLess(barStartPct, splitPct),
        hasFuture |-> sub.autoRenew /\ PLess(splitPct, barEndPct),
        segs |-> BarFragment(barStartPct, splitPct, barEndPct, totalDays)]

(***************************************************************************)
(* State: one subscription record shown in the Timeline, the App's window  *)
(* state, the clock, and the result of the row's last render.              *)
(***************************************************************************)
VARIABLES sub, timelineStart, timelineEnd, today, rendered, row

\* a call of getTimelineRange: its arguments and what it returned
VARIABLES rangeArgs, rangeResult

\* DateRangeModal: whether it is open, and its two month inputs
VARIABLES isRangeModalOpen, startStr, endStr

\* the Firestore collection, the batches the client has queued, and the state
\* of App and of EditModal
VARIABLES store, pending, subscriptions, isModalOpen, editingSub, formData

\* the last handler that ran with its outcome, and whether the local time
\* zone lies west of UTC
VARIABLES lastOp, zoneWest

\* whether the onSnapshot listener has a change of the query result to deliver
VARIABLE snapshotDue

\* App's delete confirmation state (0 stands for null), the outcome of the
\* deleteDoc call awaited ("none" when none is), and the history of delete
\* requests: the id the last one named and whether a delete has succeeded
\* since
VARIABLES deleteId, isDeleteModalOpen, deleteAwait, deleteLog

rangeVars == <<rangeArgs, rangeResult>>
modalVars == <<isRangeModalOpen, startStr, endStr>>
deleteVars == <<deleteId, isDeleteModalOpen, deleteAwait, deleteLog>>
listVars == <<store, pending, subscriptions, isModalOpen, editingSub, formData,
              snapshotDue, deleteVars>>
appVars == <<modalVars, listVars, lastOp, zoneWest>>

\* the state outside the row geometry
otherThanGeom == <<rangeVars, appVars>>

vars == <<sub, timelineStart, timelineEnd, today, rendered, row, rangeVars, appVars>>

\* bounds of the explored inputs
FarPastYears == 90
MaxWindowMonths == 14
MaxEndYears == 2

\* the values of the clock
Todays == {MkDate(2024, 2, 15), MkDate(2024, 6, 1), MkDate(2024, 8, 15), MkDate(2025, 6, 20)}

\* the months offered to the date range form
WindowBase == MkDate(2024, 1, 1)
RangeMonths == {addMonths(WindowBase, k) : k \in {0, 5, MaxWindowMonths}}

\* a start date so far back that the monthly stepping reaches MAX_LOOPS
FarPastStart == MkDate(2024 - FarPastYears, 1, 31)

StartDates ==
    {MkDate(2024, 6, 1), MkDate(2024, 1, 31), MkDate(2023, 11, 30), MkDate(2025, 4, 10),
     FarPastStart, InvalidDate}

\* the end dates explored with a start date (the far past one stays open-ended)
EndDatesOf(startDate) ==
    IF startDate = FarPastStart THEN {NullDate}
    ELSE {NullDate, MkDate(2024, 12, 1), MkDate(2024 + MaxEndYears, 1, 1)}
           \cup (IF isValid(startDate) THEN {startDate} ELSE {})

Subs ==
    {x \in [startDate : StartDates,
            endDate : UNION {EndDatesOf(s) : s \in StartDates},
            cycle : BillingCycle, autoRenew : BOOLEAN] :
        x.endDate \in EndDatesOf(x.startDate)}

NoRow == [segs |-> <<>>]

\* no call of getTimelineRange is being looked at
NoRangeArgs == [customStart |-> NullDate, customEnd |-> NullDate, now |-> NullDate]
NoRangeResult == [called |-> FALSE, error |-> "none",
                  start |-> NullDate, end |-> NullDate, months |-> <<>>]
RangeIdle == rangeArgs = NoRangeArgs /\ rangeResult = NoRangeResult

\* Subscription (types.ts): the record App hands to EditModal before any is
\* chosen (editingSub = null, formData = {})
NoSub == [id |-> 0, type |-> "none", amount |-> 0, cycle |-> MONTHLY,
          startDate |-> NullDate, endDate |-> NullDate, autoRenew |-> FALSE, order |-> 0]

\* App and DateRangeModal as mounted: both modals closed, inputs empty
ModalIdle == isRangeModalOpen = FALSE /\ startStr = NullDate /\ endStr = NullDate
DeleteIdle ==
    /\ deleteId = 0
    /\ isDeleteModalOpen = FALSE
    /\ deleteAwait = "none"
    /\ deleteLog = [requested |-> 0, served |-> FALSE]
ListIdle ==
    /\ store = {}
    /\ pending = <<>>
    /\ subscriptions = <<>>
    /\ isModalOpen = FALSE
    /\ editingSub = NoSub
    /\ formData = NoSub
    /\ snapshotDue = FALSE
    /\ DeleteIdle
AppIdle == ModalIdle /\ ListIdle /\ lastOp = "mount" /\ zoneWest = FALSE

\* App: useState defaults of timelineStart / timelineEnd
DefaultStart(now) == startOfMonth(subMonths(now, 1))
DefaultEnd(now) == startOfMonth(addMonths(now, 13))

Init ==
    /\ today \in Todays
    /\ sub \in Subs
    /\ timelineStart = DefaultStart(today)
    /\ timelineEnd = DefaultEnd(today)
    /\ rendered = FALSE
    /\ row = NoRow
    /\ RangeIdle
    /\ AppIdle

\* Timeline: range and totalDays memo, then the SubscriptionRow of the record
Render ==
    /\ ~rendered
    /\ LET range == getTimelineRange(timelineStart, timelineEnd, today)
           totalDays == differenceInDays(range.end, range.start)
       IN row' = SubscriptionRow(sub, range.start, range.end, totalDays, today)
    /\ rendered' = TRUE
    /\ UNCHANGED <<sub, timelineStart, timelineEnd, today>>
    /\ UNCHANGED otherThanGeom

\* DateRangeModal.handleSubmit with both fields set, then App.handleRangeSave
RangeSubmit(newStart, newEnd) ==
    /\ ~DateLT(newEnd, newStart)
    /\ timelineStart' = newStart
    /\ timelineEnd' = newEnd
    /\ rendered' = FALSE
    /\ row' = NoRow
    /\ UNCHANGED <<sub, today>>
    /\ UNCHANGED otherThanGeom

\* the clock moves on and the row is rendered anew
Tick(t) ==
    /\ DateLT(today, t)
    /\ today' = t
    /\ rendered' = FALSE
    /\ row' = NoRow
    /\ UNCHANGED <<sub, timelineStart, timelineEnd>>
    /\ UNCHANGED otherThanGeom

Next ==
    \/ Render
    \/ \E s \in RangeMonths, e \in RangeMonths : RangeSubmit(s, e)
    \/ \E t \in Todays : Tick(t)

Spec == Init /\ [][Next]_vars

\* the window and divisor the current state renders with
CurRange == getTimelineRange(timelineStart, timelineEnd, today)
CurTotalDays == differenceInDays(CurRange.end, CurRange.start)

TypeOK ==
    /\ today \in Todays
    /\ rendered \in BOOLEAN
    /\ Len(row.segs) <= 2

(***************************************************************************)
(* getTimelineRange as a function of its arguments and of the clock        *)
(***************************************************************************)

\* the dates passed as customStart / customEnd (NullDate: argument omitted)
RangeInputs ==
    {MkDate(2023, 11, 30), MkDate(2024, 1, 15), MkDate(2024, 1, 31),
     MkDate(2024, 2, 29), MkDate(2024, 12, 31), MkDate(2025, 3, 1)}

\* the values of "new Date()" inside getTimelineRange
RangeNows == Todays \cup {MkDate(2024, 1, 31), MkDate(2024, 3, 31), MkDate(2024, 12, 31)}

\* the row geometry is not looked at
GeomIdle ==
    /\ today = MkDate(2024, 2, 15)
    /\ sub = [startDate |-> MkDate(2024, 6, 1), endDate |-> NullDate,
              cycle |-> MONTHLY, autoRenew |-> TRUE]
    /\ timelineStart = DefaultStart(today)
    /\ timelineEnd = DefaultEnd(today)
    /\ rendered = FALSE
    /\ row = NoRow

geomVars == <<sub, timelineStart, timelineEnd, today, rendered, row>>

RangeInit ==
    /\ GeomIdle
    /\ rangeArgs \in [customStart : RangeInputs \cup {NullDate},
                       customEnd : RangeInputs \cup {NullDate},
                       now : RangeNows]
    /\ rangeResult = NoRangeResult
    /\ AppIdle

\* one call of getTimelineRange(customStart, customEnd); the function has no
\* throw statement, so the call returns normally whatever its arguments
CallGetTimelineRange ==
    /\ ~rangeResult.called
    /\ LET r == getTimelineRange(rangeArgs.customStart, rangeArgs.customEnd, rangeArgs.now)
       IN rangeResult' = [called |-> TRUE, error |-> "none",
                          start |-> r.start, end |-> r.end, months |-> r.months]
    /\ UNCHANGED <<rangeArgs, geomVars, appVars>>

\* the caller passes other arguments (Timeline's useMemo recomputes)
ChangeRangeArgs(s, e) ==
    /\ rangeResult.called
    /\ <<s, e>> # <<rangeArgs.customStart, rangeArgs.customEnd>>
    /\ rangeArgs' = [rangeArgs EXCEPT !.customStart = s, !.customEnd = e]
    /\ rangeResult' = NoRangeResult
    /\ UNCHANGED <<geomVars, appVars>>

RangeNext ==
    \/ CallGetTimelineRange
    \/ \E s \in RangeInputs \cup {NullDate}, e \in RangeInputs \cup {NullDate} :
          ChangeRangeArgs(s, e)

SpecRange == RangeInit /\ [][RangeNext]_vars

(***************************************************************************)
(* The window of the Timeline: App's timelineStart / timelineEnd and the   *)
(* DateRangeModal that edits them                                          *)
(***************************************************************************)

\* how far back the explored windows reach
MaxDriftMonths == 2

PrevDay(dt) ==
    IF dt.d > 1 THEN MkDate(dt.y, dt.m, dt.d - 1)
    ELSE IF dt.m > 1 THEN MkDate(dt.y, dt.m - 1, getDaysInMonth(dt.y, dt.m - 1))
    ELSE MkDate(dt.y - 1, 12, 31)

\* new Date("yyyy-MM-dd"): a date-only string is read as midnight UTC, which
\* west of UTC is still the evening of the day before on the local calendar
ParseDateInput(value) ==
    IF ~isValid(value) THEN InvalidDate
    ELSE IF zoneWest THEN PrevDay(value) ELSE value

\* format(date, 'yyyy-MM'): the month string, held as the first of that month
FormatMonth(dt) == startOfMonth(dt)

\* the values typed into a month input ("" is NullDate)
MonthInputs ==
    {NullDate, MkDate(2024, 1, 1), MkDate(2024, 2, 1), MkDate(2024, 6, 1), MkDate(2025, 3, 1)}

EarliestWindow == subMonths(MkDate(2024, 1, 1), MaxDriftMonths)

WindowInit ==
    /\ today \in {MkDate(2024, 2, 15), MkDate(2024, 8, 15)}
    /\ sub = [startDate |-> MkDate(2024, 6, 1), endDate |-> NullDate,
              cycle |-> MONTHLY, autoRenew |-> TRUE]
    /\ timelineStart = DefaultStart(today)
    /\ timelineEnd = DefaultEnd(today)
    /\ rendered = FALSE
    /\ row = NoRow
    /\ RangeIdle
    /\ ModalIdle
    /\ ListIdle
    /\ lastOp = "mount"
    /\ zoneWest \in BOOLEAN

\* onEditRange, then the effect of DateRangeModal on isOpen
OpenRangeModal ==
    /\ ~isRangeModalOpen
    /\ ~DateLT(timelineStart, EarliestWindow)
    /\ isRangeModalOpen' = TRUE
    /\ startStr' = FormatMonth(timelineStart)
    /\ endStr' = FormatMonth(timelineEnd)
    /\ lastOp' = "range_open"
    /\ UNCHANGED <<geomVars, rangeVars, listVars, zoneWest>>

SetStartStr(v) ==
    /\ isRangeModalOpen
    /\ v # startStr
    /\ startStr' = v
    /\ lastOp' = "range_input"
    /\ UNCHANGED <<geomVars, rangeVars, listVars, zoneWest, isRangeModalOpen, endStr>>

SetEndStr(v) ==
    /\ isRangeModalOpen
    /\ v # endStr
    /\ endStr' = v
    /\ lastOp' = "range_input"
    /\ UNCHANGED <<geomVars, rangeVars, listVars, zoneWest, isRangeModalOpen, startStr>>

\* DateRangeModal.handleSubmit: "if (newEnd < newStart) { alert(...); return; }"
RangeRejected_never(newStart, newEnd) == FALSE
RangeRejected(newStart, newEnd) == DateLT(newEnd, newStart)

\* DateRangeModal.handleSubmit with App.handleRangeSave as onSave
DateRangeModalSubmit ==
    /\ isRangeModalOpen
    /\ IF startStr # NullDate /\ endStr # NullDate
       THEN LET newStart == ParseDateInput(startStr)
                newEnd == ParseDateInput(endStr)
            IN IF RangeRejected(newStart, newEnd)
               THEN /\ lastOp' = "range_rejected"
                    /\ UNCHANGED <<timelineStart, timelineEnd, isRangeModalOpen>>
               ELSE /\ timelineStart' = newStart
                    /\ timelineEnd' = newEnd
                    /\ isRangeModalOpen' = FALSE
                    /\ lastOp' = "range_saved"
       ELSE /\ isRangeModalOpen' = FALSE
            /\ lastOp' = "range_closed"
            /\ UNCHANGED <<timelineStart, timelineEnd>>
    /\ UNCHANGED <<sub, today, rendered, row, rangeVars, listVars, zoneWest, startStr, endStr>>

\* the close button of DateRangeModal
DateRangeModalClose ==
    /\ isRangeModalOpen
    /\ isRangeModalOpen' = FALSE
    /\ lastOp' = "range_closed"
    /\ UNCHANGED <<geomVars, rangeVars, listVars, zoneWest, startStr, endStr>>

WindowNext ==
    \/ OpenRangeModal
    \/ \E v \in MonthInputs : SetStartStr(v)
    \/ \E v \in MonthInputs : SetEndStr(v)
    \/ DateRangeModalSubmit
    \/ DateRangeModalClose

SpecWindow == WindowInit /\ [][WindowNext]_vars

(***************************************************************************)
(* The list: the Firestore collection "subscriptions", App's copy of it,   *)
(* EditModal, the add / save / reorder handlers and Summary                *)
(***************************************************************************)

\* bounds: documents in the collection, batches queued by the client
MaxDocs == 3
MaxPending == 1
MaxSaveDocs == 1

DocIds == 1 .. MaxDocs
\* the ids given to the records saved while record entry is explored
SaveIds == 1 .. MaxSaveDocs

\* handleSave: const MAX_YEAR = 3000
MAX_YEAR == 3000
\* handleAddClick: amount: 10000
NewAmount == 10000

\* what EditModal's date inputs deliver: "" (NullDate), an unparsable string
\* (InvalidDate), or a date string
DateInputs == {NullDate, InvalidDate, MkDate(2024, 12, 1), MkDate(MAX_YEAR + 1, 6, 1)}

MkSub(id, type, amount, cycle, startDate, endDate, autoRenew, order) ==
    [id |-> id, type |-> type, amount |-> amount, cycle |-> cycle,
     startDate |-> startDate, endDate |-> endDate, autoRenew |-> autoRenew, order |-> order]

\* the collection as found when the App mounts: empty, or written earlier
\* (also by older versions: date strings that do not parse, a priced category)
InitStores ==
    { {},
      {MkSub(1, "service", NewAmount, MONTHLY, InvalidDate, NullDate, TRUE, 0)},
      {MkSub(1, "service", NewAmount, MONTHLY, MkDate(2024, 1, 31), InvalidDate, TRUE, 0)},
      {MkSub(1, "service", 120000, YEARLY, MkDate(2023, 11, 30), MkDate(2024, 3, 1), FALSE, 0),
       MkSub(2, "category", 5000, MONTHLY, MkDate(2024, 6, 1), NullDate, FALSE, 1)} }

IdsOf(docs) == {x.id : x \in docs}
DocOf(docs, id) == CHOOSE x \in docs : x.id = id

\* query(collection, orderBy("order", "asc")): by order, ties by document id
RECURSIVE SortByOrder(_)
SortByOrder(docs) ==
    IF docs = {} THEN <<>>
    ELSE LET first == CHOOSE x \in docs :
                          \A y \in docs : x.order < y.order \/ (x.order = y.order /\ x.id <= y.id)
         IN <<first>> \o SortByOrder(docs \ {first})

\* handleReorder: newOrder.forEach((sub, index) => batch.update(subRef, { order: index }))
ApplyBatch_fromOne(batch, docs) ==
    {IF \E i \in 1 .. Len(batch) : batch[i] = x.id
     THEN [x EXCEPT !.order = CHOOSE i \in 1 .. Len(batch) : batch[i] = x.id]
     ELSE x : x \in docs}
ApplyBatch(batch, docs) ==
    {IF \E i \in 1 .. Len(batch) : batch[i] = x.id
     THEN [x EXCEPT !.order = (CHOOSE i \in 1 .. Len(batch) : batch[i] = x.id) - 1]
     ELSE x : x \in docs}

\* a batch commits only if every document it updates exists
BatchApplies(batch, docs) == \A i \in 1 .. Len(batch) : batch[i] \in IdsOf(docs)

\* what the snapshot listener is shown: the collection with the writes the
\* client has queued laid over it
RECURSIVE LocalView(_, _)
LocalView(queue, docs) ==
    IF queue = <<>> THEN docs
    ELSE LocalView(Tail(queue),
                   IF BatchApplies(Head(queue), docs) THEN ApplyBatch(Head(queue), docs) ELSE docs)

\* variant: the query in descending order
SnapshotList_descending(queue, docs) ==
    LET asc == SortByOrder(LocalView(queue, docs))
    IN [k \in 1 .. Len(asc) |-> asc[Len(asc) + 1 - k]]

\* onSnapshot callback: the documents in query order
SnapshotList(queue, docs) == SortByOrder(LocalView(queue, docs))

\* handleSave: the three validations before anything is written
SaveAccepted_noYearCheck(updatedSub) ==
    /\ isValid(updatedSub.startDate)
    /\ (updatedSub.endDate = NullDate \/ isValid(updatedSub.endDate))
SaveAccepted(updatedSub) ==
    /\ isValid(updatedSub.startDate)
    /\ (updatedSub.endDate = NullDate \/ isValid(updatedSub.endDate))
    /\ ~(updatedSub.startDate.y > MAX_YEAR
         \/ (updatedSub.endDate # NullDate /\ updatedSub.endDate.y > MAX_YEAR))

\* EditModal.handleSubmit: "if (formData.startDate && !isValid(formData.startDate))"
SubmitBlocked(form) == form.startDate # NullDate /\ ~isValid(form.startDate)

\* variant: one month whatever the cycle
calculateCycleEndDate_alwaysMonth(start, cycle) ==
    IF ~isValid(start) THEN NullDate ELSE addMonths(start, 1)

\* EditModal.calculateCycleEndDate
calculateCycleEndDate(start, cycle) ==
    IF ~isValid(start) THEN NullDate
    ELSE IF cycle = MONTHLY THEN addMonths(start, 1) ELSE addMonths(start, 12)

\* Summary: stats; the monthly total is kept in twelfths (amount / 12 exact)
RECURSIVE SummaryFrom_countAll(_, _, _)
SummaryFrom_countAll(subs, now, acc) ==
    IF subs = <<>> THEN acc
    ELSE LET s == Head(subs)
             monthly12 == IF s.cycle = MONTHLY THEN s.amount * 12 ELSE s.amount
             yearly == IF s.cycle = MONTHLY THEN s.amount * 12 ELSE s.amount
             isActive == s.endDate = NullDate \/ DateLT(now, s.endDate)
         IN SummaryFrom_countAll(Tail(subs), now,
                [count |-> acc.count + 1,
                 monthly12 |-> acc.monthly12 + (IF isActive THEN monthly12 ELSE 0),
                 yearly |-> acc.yearly + (IF isActive THEN yearly ELSE 0)])
RECURSIVE SummaryFrom(_, _, _)
SummaryFrom(subs, now, acc) ==
    IF subs = <<>> THEN acc
    ELSE LET s == Head(subs)
             monthly12 == IF s.cycle = MONTHLY THEN s.amount * 12 ELSE s.amount
             yearly == IF s.cycle = MONTHLY THEN s.amount * 12 ELSE s.amount
             isActive == s.endDate = NullDate \/ DateLT(now, s.endDate)
         IN IF s.type = "category" THEN SummaryFrom(Tail(subs), now, acc)
            ELSE SummaryFrom(Tail(subs), now,
                     [count |-> acc.count + 1,
                      monthly12 |-> acc.monthly12 + (IF isActive THEN monthly12 ELSE 0),
                      yearly |-> acc.yearly + (IF isActive THEN yearly ELSE 0)])

Summary(subs, now) == SummaryFrom(subs, now, [count |-> 0, monthly12 |-> 0, yearly |-> 0])

\* Timeline: subscriptions.map: a CategoryRow (a label, no bar) for a
\* category, a SubscriptionRow for anything else
TimelineRow(s, start, end, totalDays, now) ==
    IF s.type = "category" THEN NoRow
    ELSE SubscriptionRow(s, start, end, totalDays, now)

\* the state the handlers of the list and of the delete confirmation leave
\* alone, and the state the handlers of the list leave alone
outsideApp == <<geomVars, rangeVars, modalVars, zoneWest>>
outsideList == <<outsideApp, deleteVars>>

\* onSnapshot: the listener is called again when the query result changes
NotifyListener ==
    snapshotDue' = (snapshotDue \/ SnapshotList(pending', store') # SnapshotList(pending, store))

AppInit ==
    /\ today = MkDate(2024, 8, 15)
    /\ sub = [startDate |-> MkDate(2024, 6, 1), endDate |-> NullDate,
              cycle |-> MONTHLY, autoRenew |-> TRUE]
    /\ timelineStart = DefaultStart(today)
    /\ timelineEnd = DefaultEnd(today)
    /\ rendered = FALSE
    /\ row = NoRow
    /\ RangeIdle
    /\ ModalIdle
    /\ store \in InitStores
    /\ pending = <<>>
    /\ subscriptions = <<>>
    /\ isModalOpen = FALSE
    /\ editingSub = NoSub
    /\ formData = NoSub
    /\ snapshotDue = TRUE
    /\ DeleteIdle
    /\ lastOp = "mount"
    /\ zoneWest \in BOOLEAN

\* the onSnapshot callback: setSubscriptions(subs)
Snapshot ==
    /\ snapshotDue
    /\ subscriptions' = SnapshotList(pending, store)
    /\ snapshotDue' = FALSE
    /\ lastOp' = "ui"
    /\ UNCHANGED <<store, pending, isModalOpen, editingSub, formData, outsideList>>

\* App.handleAddClick, then EditModal's effect on [subscription]
handleAddClick ==
    /\ ~isModalOpen
    /\ ~isDeleteModalOpen
    /\ LET newSub == MkSub(0, "service", NewAmount, MONTHLY, today, NullDate, TRUE,
                           Len(subscriptions))
       IN editingSub' = newSub /\ formData' = newSub
    /\ isModalOpen' = TRUE
    /\ lastOp' = "ui"
    /\ UNCHANGED <<store, pending, subscriptions, outsideList>>
    /\ NotifyListener

\* App.handleEditClick (offered by SubscriptionRow only); the effect copies
\* the record into formData when the subscription prop is another object,
\* which for an equal record it may or may not be
handleEditClick(i) ==
    /\ ~isModalOpen
    /\ ~isDeleteModalOpen
    /\ subscriptions[i].type # "category"
    /\ editingSub' = subscriptions[i]
    /\ formData' \in {subscriptions[i]} \cup
                     (IF editingSub = subscriptions[i] THEN {formData} ELSE {})
    /\ isModalOpen' = TRUE
    /\ lastOp' = "ui"
    /\ UNCHANGED <<store, pending, subscriptions, outsideList>>
    /\ NotifyListener

\* EditModal.handleDateChange(field, value)
handleDateChange(field, value) ==
    /\ isModalOpen
    /\ LET dateObj == ParseDateInput(value)
           isAutoRenew == formData.autoRenew
       IN formData' =
            IF value = NullDate
            THEN (IF field = "startDate" THEN formData
                  ELSE [formData EXCEPT !.endDate = NullDate])
            ELSE IF ~isValid(dateObj) THEN formData
            ELSE IF field = "startDate"
                 THEN [formData EXCEPT
                         !.startDate = dateObj,
                         !.endDate = IF isAutoRenew
                                     THEN calculateCycleEndDate(dateObj, formData.cycle)
                                     ELSE formData.endDate]
                 ELSE [formData EXCEPT !.endDate = dateObj]
    /\ lastOp' = "ui"
    /\ UNCHANGED <<store, pending, subscriptions, isModalOpen, editingSub, outsideList>>
    /\ NotifyListener

\* EditModal.handleAutoRenewChange: the checkbox is switched to checked
handleAutoRenewChange(checked) ==
    /\ isModalOpen
    /\ checked # formData.autoRenew
    /\ formData' = [formData EXCEPT
                      !.autoRenew = checked,
                      !.endDate = IF checked /\ isValid(formData.startDate)
                                  THEN calculateCycleEndDate(formData.startDate, formData.cycle)
                                  ELSE formData.endDate]
    /\ lastOp' = "ui"
    /\ UNCHANGED <<store, pending, subscriptions, isModalOpen, editingSub, outsideList>>
    /\ NotifyListener

\* EditModal: onChange of the billing cycle select
handleCycleChange(newCycle) ==
    /\ isModalOpen
    /\ newCycle # formData.cycle
    /\ formData' = [formData EXCEPT
                      !.cycle = newCycle,
                      !.endDate = IF formData.autoRenew /\ isValid(formData.startDate)
                                  THEN calculateCycleEndDate(formData.startDate, newCycle)
                                  ELSE formData.endDate]
    /\ lastOp' = "ui"
    /\ UNCHANGED <<store, pending, subscriptions, isModalOpen, editingSub, outsideList>>
    /\ NotifyListener

\* EditModal.handleSubmit with App.handleSave as onSave; ok is whether
\* Firestore takes the write, newId the (unused) id it gives a new document
EditModalSubmit(ok, newId) ==
    /\ isModalOpen
    /\ (~SubmitBlocked(formData) /\ SaveAccepted(formData) /\ formData.id = 0)
          => newId \notin IdsOf(store)
    /\ IF SubmitBlocked(formData)
       THEN /\ lastOp' = "submit_blocked"
            /\ UNCHANGED <<store, isModalOpen>>
       ELSE /\ isModalOpen' = FALSE
            /\ IF ~SaveAccepted(formData)
               THEN lastOp' = "save_rejected" /\ UNCHANGED store
               ELSE IF formData.id # 0
               THEN IF ok /\ formData.id \in IdsOf(store)
                    THEN /\ store' = {IF x.id = formData.id
                                      THEN [formData EXCEPT !.order = x.order]
                                      ELSE x : x \in store}
                         /\ lastOp' = "save_updated"
                    ELSE lastOp' = "save_failed" /\ UNCHANGED store
               ELSE IF ok
                    THEN /\ store' = store \cup
                                {[formData EXCEPT !.id = newId, !.order = Len(subscriptions)]}
                         /\ lastOp' = "save_added"
                    ELSE lastOp' = "save_failed" /\ UNCHANGED store
    /\ UNCHANGED <<pending, subscriptions, editingSub, formData, outsideList>>
    /\ NotifyListener

\* EditModal onClose (Escape, the close and cancel buttons)
EditModalClose ==
    /\ isModalOpen
    /\ isModalOpen' = FALSE
    /\ lastOp' = "ui"
    /\ UNCHANGED <<store, pending, subscriptions, editingSub, formData, outsideList>>
    /\ NotifyListener

\* App.handleAddCategoryClick
handleAddCategoryClick(ok, newId) ==
    /\ ~isModalOpen
    /\ ~isDeleteModalOpen
    /\ newId \notin IdsOf(store)
    /\ IF ok
       THEN /\ store' = store \cup
                   {MkSub(newId, "category", 0, MONTHLY, today, NullDate, FALSE,
                          Len(subscriptions))}
            /\ lastOp' = "category_added"
       ELSE lastOp' = "category_failed" /\ UNCHANGED store
    /\ UNCHANGED <<pending, subscriptions, isModalOpen, editingSub, formData, outsideList>>
    /\ NotifyListener

\* Reorder.Group moves the dragged row past its neighbour
SwapAt(list, i) ==
    [k \in 1 .. Len(list) |->
        IF k = i THEN list[i + 1] ELSE IF k = i + 1 THEN list[i] ELSE list[k]]

\* App.handleReorder(newOrder) up to "await batch.commit()"
handleReorder(i) ==
    /\ ~isModalOpen
    /\ ~isDeleteModalOpen
    /\ Len(pending) < MaxPending
    /\ LET newOrder == SwapAt(subscriptions, i)
       IN /\ subscriptions' = newOrder
          /\ pending' = Append(pending, [k \in 1 .. Len(newOrder) |-> newOrder[k].id])
    /\ lastOp' = "ui"
    /\ UNCHANGED <<store, isModalOpen, editingSub, formData, outsideList>>
    /\ NotifyListener

\* the queued batch commits (all its updates at once) or is refused
BatchCommit(ok) ==
    /\ pending # <<>>
    /\ IF ok /\ BatchApplies(Head(pending), store)
       THEN store' = ApplyBatch(Head(pending), store) /\ lastOp' = "commit_ok"
       ELSE lastOp' = "commit_failed" /\ UNCHANGED store
    /\ pending' = Tail(pending)
    /\ UNCHANGED <<subscriptions, isModalOpen, editingSub, formData, outsideList>>
    /\ NotifyListener

\* deleteDoc(doc(db, "subscriptions", id)); deleting no document succeeds
deleteDoc_others(docs, id) == {x \in docs : x.id = id}
deleteDoc(docs, id) == {x \in docs : x.id # id}

\* App.handleDeleteRequest(id), from the delete button of row i
handleDeleteRequest(i) ==
    /\ ~isModalOpen
    /\ ~isDeleteModalOpen
    /\ deleteId' = subscriptions[i].id
    /\ isDeleteModalOpen' = TRUE
    /\ deleteLog' = [requested |-> subscriptions[i].id, served |-> FALSE]
    /\ lastOp' = "ui"
    /\ UNCHANGED <<store, pending, subscriptions, isModalOpen, editingSub, formData,
                   deleteAwait, outsideApp>>
    /\ NotifyListener

\* the Delete button of DeleteConfirmModal: onConfirm(), which is
\* App.handleConfirmDelete up to "await deleteDoc(..)", then onClose(); ok is
\* whether Firestore takes the delete; one deleteDoc is awaited at a time
ConfirmDelete(ok) ==
    /\ isDeleteModalOpen
    /\ deleteId # 0 => deleteAwait = "none"
    /\ IF deleteId = 0
       THEN /\ lastOp' = "delete_skipped"
            /\ UNCHANGED <<store, deleteAwait>>
       ELSE /\ store' = IF ok THEN deleteDoc(store, deleteId) ELSE store
            /\ deleteAwait' = IF ok THEN "ok" ELSE "failed"
            /\ lastOp' = "delete_sent"
    /\ isDeleteModalOpen' = FALSE
    /\ UNCHANGED <<pending, subscriptions, isModalOpen, editingSub, formData,
                   deleteId, deleteLog, outsideApp>>
    /\ NotifyListener

\* App.handleConfirmDelete after the await: setDeleteId(null), or the alert
DeleteDone ==
    /\ deleteAwait # "none"
    /\ IF deleteAwait = "ok"
       THEN /\ deleteId' = 0
            /\ deleteLog' = [deleteLog EXCEPT !.served = TRUE]
            /\ lastOp' = "delete_ok"
       ELSE /\ lastOp' = "delete_failed"
            /\ UNCHANGED <<deleteId, deleteLog>>
    /\ deleteAwait' = "none"
    /\ UNCHANGED <<store, pending, subscriptions, isModalOpen, editingSub, formData,
                   isDeleteModalOpen, outsideApp>>
    /\ NotifyListener

\* DeleteConfirmModal onClose (Escape, the Cancel button)
DeleteModalClose ==
    /\ isDeleteModalOpen
    /\ isDeleteModalOpen' = FALSE
    /\ lastOp' = "ui"
    /\ UNCHANGED <<store, pending, subscriptions, isModalOpen, editingSub, formData,
                   deleteId, deleteAwait, deleteLog, outsideApp>>
    /\ NotifyListener

\* entering and saving records through EditModal
SaveNext ==
    \/ Snapshot
    \/ handleAddClick
    \/ \E i \in 1 .. Len(subscriptions) : handleEditClick(i)
    \/ \E field \in {"startDate", "endDate"}, value \in DateInputs : handleDateChange(field, value)
    \/ \E ok \in BOOLEAN, newId \in SaveIds : EditModalSubmit(ok, newId)
    \/ EditModalClose

SpecSave == AppInit /\ [][SaveNext]_vars

\* editing the form of EditModal
FormNext ==
    \/ Snapshot
    \/ handleAddClick
    \/ \E i \in 1 .. Len(subscriptions) : handleEditClick(i)
    \/ \E field \in {"startDate", "endDate"}, value \in DateInputs : handleDateChange(field, value)
    \/ \E checked \in BOOLEAN : handleAutoRenewChange(checked)
    \/ \E newCycle \in BillingCycle : handleCycleChange(newCycle)
    \/ EditModalClose

SpecForm == AppInit /\ [][FormNext]_vars

\* adding rows (records saved as EditModal opens them, category lines) and
\* reordering them
ListNext ==
    \/ Snapshot
    \/ handleAddClick
    \/ \E ok \in BOOLEAN, newId \in DocIds : EditModalSubmit(ok, newId)
    \/ EditModalClose
    \/ \E ok \in BOOLEAN, newId \in DocIds : handleAddCategoryClick(ok, newId)
    \/ \E i \in 1 .. (Len(subscriptions) - 1) : handleReorder(i)
    \/ \E ok \in BOOLEAN : BatchCommit(ok)

\* no date is typed here, so the time zone plays no part
ListInit == AppInit /\ zoneWest = FALSE

SpecList == ListInit /\ [][ListNext]_vars

\* bound of the documents held while rows are deleted
MaxDeleteDocs == 2

\* the id Firestore gives the next new document
FreshIds(docs) ==
    LET free == (1 .. MaxDeleteDocs) \ IdsOf(docs)
    IN IF free = {} THEN {} ELSE {CHOOSE x \in free : \A y \in free : x <= y}

\* adding rows and deleting them
DeleteNext ==
    \/ Snapshot
    \/ handleAddClick
    \/ \E ok \in BOOLEAN, newId \in FreshIds(store) : EditModalSubmit(ok, newId)
    \/ EditModalClose
    \/ \E ok \in BOOLEAN, newId \in FreshIds(store) : handleAddCategoryClick(ok, newId)
    \/ \E i \in 1 .. Len(subscriptions) : handleDeleteRequest(i)
    \/ \E ok \in BOOLEAN : ConfirmDelete(ok)
    \/ DeleteDone
    \/ DeleteModalClose

SpecDelete == ListInit /\ [][DeleteNext]_vars

(***************************************************************************)
(* Vocabulary of the properties                                            *)
(***************************************************************************)

\* the cycle period in months: 1 for MONTHLY, 12 for YEARLY
PeriodMonths(cycle) == IF cycle = MONTHLY THEN 1 ELSE 12

\* dt advanced by k cycle periods, one period at a time
RECURSIVE Iterate(_, _, _)
Iterate(k, dt, cycle) ==
    IF k = 0 \/ ~isValid(dt) THEN dt
    ELSE IF k = 1 THEN addMonths(dt, PeriodMonths(cycle))
    ELSE Iterate(k - (k \div 2), Iterate(k \div 2, dt, cycle), cycle)

\* reference dates used to compare two projections of the same subscription
RefDates == Todays \cup {MkDate(2023, 12, 1), MkDate(2010, 1, 1)}

\* positionOf(date, W) in the window of the current state
PositionOf(dt) == getPositionPercentage(dt, CurRange.start, CurTotalDays)

\* the right edge of an emitted segment
RightEdge(seg) == PAdd(seg.left, seg.width)

FutureSegs == {i \in 1..Len(row.segs) : row.segs[i].type = "future"}

\* a percentage within [0, 100]
InWindowPct(p) == p.k = "fin" /\ 0 <= p.n /\ p.n <= CurTotalDays

StartInWindow ==
    /\ DateLE(CurRange.start, sub.startDate)
    /\ DateLE(sub.startDate, CurRange.end)

(***************************************************************************)
(* C1 -- a projected ('future') segment is emitted only when autoRenew is  *)
(* true and barEnd > splitPoint; with autoRenew = false no projected       *)
(* segment is emitted, whatever the window and today.                      *)
(* The code calls renderBar(splitPct, barEndPct, 'future') unconditionally *)
(* (hasFuture only shapes the corners), so this is violated.               *)
(***************************************************************************)
C1_ProjectedOnlyWhenAutoRenew ==
    (rendered /\ isValid(sub.startDate) /\ CurTotalDays > 0) =>
        /\ (FutureSegs # {} => sub.autoRenew /\ PLess(row.splitPct, row.barEndPct))
        /\ (~sub.autoRenew => FutureSegs = {})

(***************************************************************************)
(* C2 -- autoRenew = false with an explicit endDate: exactly one segment,  *)
(* settled, whose right edge is positionOf(endDate, W), and no projected   *)
(* segment, regardless of today.  Stated here for the records whose bar    *)
(* lies inside the window (window.start <= startDate < endDate <=          *)
(* window.end), where the code still emits a second, 'future' element.     *)
(***************************************************************************)
C2_SingleSettledSegment ==
    (rendered /\ ~sub.autoRenew /\ StartInWindow
       /\ DateLT(sub.startDate, sub.endDate) /\ DateLE(sub.endDate, CurRange.end)) =>
        /\ Len(row.segs) = 1
        /\ row.segs[1].type = "active"
        /\ RightEdge(row.segs[1]) = PositionOf(sub.endDate)
        /\ FutureSegs = {}

(***************************************************************************)
(* C3 -- for a valid startDate <= today the projection is startDate        *)
(* advanced by k >= 1 cycle periods, strictly after today, with the value  *)
(* after k-1 periods not after today.                                      *)
(***************************************************************************)
C3_Started == rendered /\ isValid(sub.startDate) /\ DateLE(sub.startDate, today)

\* the claim as stated: violated when the iteration cap is reached
C3_StepsPastReference ==
    C3_Started =>
        LET k == row.loopCount
        IN /\ k >= 1
           /\ row.nextRenewal = Iterate(k, sub.startDate, sub.cycle)
           /\ DateLT(today, row.nextRenewal)
           /\ DateLE(Iterate(k - 1, sub.startDate, sub.cycle), today)

\* as amended: ... strictly after today unless k is the cap of 1000 steps
C3_StepsPastReferenceOrCap ==
    C3_Started =>
        LET k == row.loopCount
        IN /\ k >= 1 /\ k <= MAX_LOOPS
           /\ row.nextRenewal = Iterate(k, sub.startDate, sub.cycle)
           /\ DateLE(Iterate(k - 1, sub.startDate, sub.cycle), today)
           /\ (DateLT(today, row.nextRenewal) \/ k = MAX_LOOPS)

C3_Witness ==
    /\ C3_Started
    /\ row.loopCount >= 2 /\ row.loopCount < MAX_LOOPS
    /\ DateLT(today, row.nextRenewal)

(***************************************************************************)
(* C4 -- the stepping loop makes at most MAX_LOOPS = 1000 steps; when the  *)
(* bound is reached the result is startDate advanced by exactly 1000       *)
(* cycle periods.                                                          *)
(***************************************************************************)
C4_BoundedLoop ==
    (rendered /\ isValid(sub.startDate)) =>
        /\ row.loopCount <= MAX_LOOPS
        /\ (row.loopCount = MAX_LOOPS =>
               row.nextRenewal = Iterate(MAX_LOOPS, sub.startDate, sub.cycle))
        /\ isValid(row.nextRenewal)

C4_Witness ==
    /\ rendered /\ isValid(sub.startDate)
    /\ row.loopCount = MAX_LOOPS
    /\ DateLE(row.nextRenewal, today)

(***************************************************************************)
(* C5 -- for fixed startDate and cycle the projection is monotone in the   *)
(* reference date, also before startDate and at the iteration cap.         *)
(***************************************************************************)
C5_Monotone ==
    (rendered /\ isValid(sub.startDate)) =>
        \A r \in RefDates :
            LET other == projectNextRenewal(sub.startDate, sub.cycle, r).nextRenewal
            IN /\ (DateLE(r, today) => DateLE(other, row.nextRenewal))
               /\ (DateLE(today, r) => DateLE(row.nextRenewal, other))

\* a reference date before the start is compared with one after it
C5_Witness ==
    /\ rendered /\ isValid(sub.startDate)
    /\ DateLE(sub.startDate, today)
    /\ \E r \in RefDates : DateLT(r, sub.startDate)

(***************************************************************************)
(* C6 -- when startDate > today the projection is exactly startDate plus   *)
(* one cycle period.                                                       *)
(***************************************************************************)
C6_NotStarted ==
    (rendered /\ DateLT(today, sub.startDate)) =>
        row.nextRenewal = addMonths(sub.startDate, PeriodMonths(sub.cycle))

C6_Witness == rendered /\ DateLT(today, sub.startDate) /\ sub.cycle = YEARLY

(***************************************************************************)
(* C7 -- auto-renewing, no endDate, startDate inside the window and        *)
(* <= today: a settled segment from positionOf(startDate) to               *)
(* positionOf(next renewal), then a projected segment from there to the    *)
(* position of window.end.                                                 *)
(***************************************************************************)
C7_SettledThenProjected ==
    (rendered /\ sub.autoRenew /\ sub.endDate = NullDate
       /\ StartInWindow /\ DateLE(sub.startDate, today)) =>
        /\ Len(row.segs) = 2
        /\ row.segs[1].type = "active"
        /\ row.segs[1].left = PositionOf(sub.startDate)
        /\ RightEdge(row.segs[1]) = PositionOf(row.nextRenewal)
        /\ row.segs[2].type = "future"
        /\ row.segs[2].left = PositionOf(row.nextRenewal)
        /\ RightEdge(row.segs[2]) = PositionOf(CurRange.end)

(***************************************************************************)
(* C8 -- autoRenew and startDate not after window.end: the right edge of   *)
(* the last emitted segment (barEnd) is the position of window.end, and an *)
(* endDate inside the window puts the split at positionOf(endDate).        *)
(***************************************************************************)
C8_BarEndsAtWindowEnd ==
    (rendered /\ sub.autoRenew /\ isValid(sub.startDate)
       /\ ~DateLT(CurRange.end, sub.startDate)) =>
        /\ row.barEndPct = PositionOf(CurRange.end)
        /\ Len(row.segs) >= 1
        /\ RightEdge(row.segs[Len(row.segs)]) = PositionOf(CurRange.end)
        /\ ((DateLE(CurRange.start, sub.endDate) /\ DateLE(sub.endDate, CurRange.end))
              => row.splitPct = PositionOf(sub.endDate))

(***************************************************************************)
(* C9 -- with valid dates and totalDays > 0 every emitted segment has its  *)
(* offset and its width within [0, 100].                                   *)
(***************************************************************************)
C9_SegmentsClipped ==
    (rendered /\ isValid(sub.startDate) /\ CurTotalDays > 0
       /\ (sub.endDate = NullDate \/ isValid(sub.endDate))) =>
        \A i \in 1..Len(row.segs) :
            InWindowPct(row.segs[i].left) /\ InWindowPct(row.segs[i].width)

(***************************************************************************)
(* C10 -- startDate after the window end, endDate absent or >= startDate:  *)
(* widthOf is 0 and no segment is emitted.                                 *)
(***************************************************************************)
C10_AfterWindowEmpty ==
    (rendered /\ DateLT(CurRange.end, sub.startDate)
       /\ (sub.endDate = NullDate \/ DateLE(sub.startDate, sub.endDate))) =>
        /\ row.width = Fin(0)
        /\ row.visualWidth = Fin(0)
        /\ row.segs = <<>>

C10_Witness ==
    /\ rendered /\ DateLT(CurRange.end, sub.startDate)
    /\ sub.autoRenew /\ sub.endDate # NullDate /\ DateLE(sub.startDate, sub.endDate)
    /\ CurTotalDays > 0

(***************************************************************************)
(* Vocabulary of the range properties                                      *)
(***************************************************************************)

\* months since year 0 of the month a date lies in
MonthIndex(dt) == dt.y * 12 + (dt.m - 1)

\* the first day of the month with a given index
FirstOfMonth(i) == MkDate(i \div 12, (i % 12) + 1, 1)

\* the arguments of the call as normalised to their month (defaults applied)
NormStartIndex ==
    IF rangeArgs.customStart # NullDate THEN MonthIndex(rangeArgs.customStart)
    ELSE MonthIndex(rangeArgs.now) - 1
NormEndIndex ==
    IF rangeArgs.customEnd # NullDate THEN MonthIndex(rangeArgs.customEnd)
    ELSE MonthIndex(rangeArgs.now) + 13

C12_MonthsGrid ==
    (rangeResult.called /\ NormStartIndex <= NormEndIndex) =>
        LET months == rangeResult.months
            n == NormEndIndex - NormStartIndex + 1
        IN /\ rangeResult.error = "none"
           /\ rangeResult.start = FirstOfMonth(NormStartIndex)
           /\ rangeResult.end = FirstOfMonth(NormEndIndex)
           /\ Len(months) = n
           /\ n >= 1
           /\ months[1] = rangeResult.start
           /\ months[n] = rangeResult.end
           /\ \A i \in 1..n : months[i] = FirstOfMonth(NormStartIndex + i - 1)
           /\ \A i \in 1..(n - 1) : DateLT(months[i], months[i + 1])

\* a range of several months that crosses a year end, and a single-month one
C12_Witness ==
    /\ rangeResult.called
    /\ NormEndIndex - NormStartIndex >= 12
    /\ rangeArgs.customStart # NullDate /\ rangeArgs.customEnd # NullDate

(***************************************************************************)
(* C13 -- without arguments the range starts on the first day of the month *)
(* before the current month, ends on the first day of the month thirteen   *)
(* months after it, and months has exactly 15 entries, whatever the date.  *)
(***************************************************************************)
C13_DefaultRange ==
    (rangeResult.called /\ rangeArgs.customStart = NullDate
       /\ rangeArgs.customEnd = NullDate) =>
        /\ rangeResult.start = FirstOfMonth(MonthIndex(rangeArgs.now) - 1)
        /\ rangeResult.end = FirstOfMonth(MonthIndex(rangeArgs.now) + 13)
        /\ Len(rangeResult.months) = 15
        /\ rangeResult.start = DefaultStart(rangeArgs.now)
        /\ rangeResult.end = DefaultEnd(rangeArgs.now)

\* the default range on the last day of a 31-day month
C13_Witness ==
    /\ rangeResult.called
    /\ rangeArgs.customStart = NullDate /\ rangeArgs.customEnd = NullDate
    /\ rangeArgs.now.d = 31

C15_TotalDaysNonZero == CurTotalDays # 0

(***************************************************************************)
(* C16 -- for a record whose startDate is not a valid date the row emits   *)
(* no segment (the record is skipped) and nothing is raised.               *)
(* Nothing is raised, but getPositionPercentage yields NaN, NaN passes the *)
(* "endP <= startP + 0.001" test of renderBar, and both bar elements are   *)
(* emitted with NaN left and width.                                        *)
(***************************************************************************)
C16_InvalidStartSkipped == (rendered /\ ~isValid(sub.startDate)) => row.segs = <<>>

(***************************************************************************)
(* Vocabulary of the list properties                                       *)
(***************************************************************************)

\* a record the data-entry boundary is to let through: valid startDate,
\* endDate null or valid, no year above 3000
WellFormed(x) ==
    /\ x.startDate # InvalidDate /\ x.startDate # NullDate
    /\ x.endDate # InvalidDate
    /\ x.startDate.y <= 3000
    /\ x.endDate.y <= 3000

\* a record with its order field left out
SansOrder(x) == [x EXCEPT !.order = 0]

IsService(x) == x.type # "category"

\* count and totals of a list holding services only
RECURSIVE ServiceTotals(_, _)
ServiceTotals(services, now) ==
    IF services = <<>> THEN [count |-> 0, monthly12 |-> 0, yearly |-> 0]
    ELSE LET s == Head(services)
             rest == ServiceTotals(Tail(services), now)
             active == s.endDate = NullDate \/ DateLT(now, s.endDate)
             perYear == IF s.cycle = MONTHLY THEN 12 * s.amount ELSE s.amount
         IN [count |-> rest.count + 1,
             monthly12 |-> rest.monthly12 + (IF active THEN perYear ELSE 0),
             yearly |-> rest.yearly + (IF active THEN perYear ELSE 0)]

(***************************************************************************)
(* C17 -- a record with an invalid startDate, an invalid endDate or a      *)
(* start / end year above 3000 is refused at data entry: whatever the      *)
(* sequence of EditModal submissions (each calling App.handleSave), every  *)
(* document added or rewritten is well formed, and a save of a record that *)
(* is not leaves the collection as it was.                                 *)
(***************************************************************************)
C17_RefusedAtEntry ==
    [][/\ \A x \in store' : (\A y \in store : SansOrder(y) # SansOrder(x)) => WellFormed(x)
       /\ ((\E ok \in BOOLEAN, newId \in DocIds : EditModalSubmit(ok, newId))
             /\ ~WellFormed(formData))
          => store' = store]_vars

\* a record dated past the year 3000 has just been refused by handleSave
C17_Witness ==
    /\ lastOp = "save_rejected"
    /\ isValid(formData.startDate)
    /\ (formData.startDate.y > 3000 \/ formData.endDate.y > 3000)

(***************************************************************************)
(* C18 -- category entries take no part in any aggregation: the count and  *)
(* the monthly and yearly totals of Summary equal those of the list with   *)
(* the category entries removed, and the Timeline computes no bar for a    *)
(* category entry.                                                         *)
(***************************************************************************)
C18_CategoriesExcluded ==
    /\ Summary(subscriptions, today)
         = ServiceTotals(SelectSeq(subscriptions, IsService), today)
    /\ \A i \in 1 .. Len(subscriptions) :
          ~IsService(subscriptions[i])
             => TimelineRow(subscriptions[i], CurRange.start, CurRange.end,
                            CurTotalDays, today).segs = <<>>

\* the list shows a priced, open-ended category next to a service
C18_Witness ==
    /\ \E i \in 1 .. Len(subscriptions) :
          /\ ~IsService(subscriptions[i])
          /\ subscriptions[i].amount > 0
          /\ subscriptions[i].endDate = NullDate
    /\ \E i \in 1 .. Len(subscriptions) : IsService(subscriptions[i])

(***************************************************************************)
(* C19 -- when the batch of a reorder of N records commits, the persisted  *)
(* order values of these records are exactly 0 .. N-1, each equal to the   *)
(* record's index in the submitted list.                                   *)
(***************************************************************************)
C19_ReorderPersistsIndex ==
    [][(BatchCommit(TRUE) /\ BatchApplies(Head(pending), store))
          => LET newOrder == Head(pending)
                 N == Len(newOrder)
             IN /\ \A i \in 1 .. N : DocOf(store', newOrder[i]).order = i - 1
                /\ {DocOf(store', newOrder[i]).order : i \in 1 .. N} = 0 .. (N - 1)]_vars

\* a reorder has just been committed: the collection carries the indices of
\* the list on screen, whose own records still show the orders from before
C19_Witness ==
    /\ lastOp = "commit_ok"
    /\ Len(subscriptions) >= 2
    /\ \A i \in 1 .. Len(subscriptions) :
          /\ subscriptions[i].id \in IdsOf(store)
          /\ DocOf(store, subscriptions[i].id).order = i - 1
    /\ \E i \in 1 .. Len(subscriptions) : subscriptions[i].order # i - 1

(***************************************************************************)
(* Vocabulary of the width and agreement properties                        *)
(***************************************************************************)

\* the later / the earlier of two valid dates
LaterOf(a, b) == IF ToDays(a) >= ToDays(b) THEN a ELSE b
EarlierOf(a, b) == IF ToDays(a) <= ToDays(b) THEN a ELSE b

\* the interval [s, e] (e = NullDate: open-ended) clipped to the window
ClipStart(s) == LaterOf(s, CurRange.start)
ClipEnd(e) == IF e = NullDate THEN CurRange.end ELSE EarlierOf(e, CurRange.end)

\* widthOf as the specification words it, as a number of days over totalDays
SpecWidth(s, e) ==
    IF ToDays(ClipEnd(e)) < ToDays(ClipStart(s)) THEN Fin(0)
    ELSE Fin(ToDays(ClipEnd(e)) - ToDays(ClipStart(s)) + 1)

\* the record has real dates and the window a positive length
Drawable ==
    /\ rendered
    /\ CurTotalDays > 0
    /\ isValid(sub.startDate)
    /\ sub.endDate # InvalidDate

\* a percentage greater than 0
Positive(p) == PLess(Fin(0), p)

\* today lies within [left, right) of the segment
CoversToday(seg) ==
    /\ ~PLess(PositionOf(today), seg.left)
    /\ PLess(PositionOf(today), RightEdge(seg))

(***************************************************************************)
(* C21 -- positionOf is exactly 0 for every date strictly before the       *)
(* window start, in every window with totalDays > 0.                       *)
(***************************************************************************)
C21_BeforeWindowIsZero ==
    (rendered /\ CurTotalDays > 0)
       => /\ DateLT(sub.startDate, CurRange.start) => row.left = Fin(0)
          /\ DateLT(row.solidEndDate, CurRange.start) => row.solidEndPct = Fin(0)

\* a rendered record that starts before the window
C21_Witness ==
    /\ rendered
    /\ CurTotalDays > 0
    /\ DateLT(sub.startDate, CurRange.start)
    /\ row.left = Fin(0)

(***************************************************************************)
(* C22 -- widthOf is 0 whenever the interval clipped to the window is      *)
(* empty (effectiveEnd = min(end or windowEnd, windowEnd) before           *)
(* effectiveStart = max(start, windowStart)), and otherwise                *)
(* ((daysBetween(effectiveEnd, effectiveStart) + 1) / totalDays) * 100.    *)
(***************************************************************************)
C22_WidthFormula ==
    Drawable
       => /\ row.width = SpecWidth(sub.startDate, sub.endDate)
          /\ isValid(row.visualEndDate)
                => row.visualWidth = SpecWidth(sub.startDate, row.visualEndDate)

\* one record that ends before the window starts, one that outlasts it
C22_Witness ==
    /\ Drawable
    /\ sub.endDate # NullDate
    /\ \/ DateLT(sub.endDate, CurRange.start) /\ row.width = Fin(0)
       \/ DateLT(CurRange.end, sub.endDate) /\ DateLT(sub.startDate, CurRange.end)
            /\ Positive(row.width)

(***************************************************************************)
(* C23 -- a single-day interval (start = end) inside the window has a      *)
(* width strictly greater than 0, equal to (1 / totalDays) * 100.          *)
(***************************************************************************)
C23_SingleDayWidth ==
    (Drawable /\ sub.endDate = sub.startDate /\ StartInWindow)
       => (row.width = Fin(1) /\ Positive(row.width))

C23_Witness ==
    /\ Drawable
    /\ sub.endDate = sub.startDate
    /\ StartInWindow
    /\ row.width = Fin(1)

(***************************************************************************)
(* C24 -- whenever widthOf of the record's visual interval is greater than *)
(* 0, the bar has at least one segment of non-zero width.                  *)
(* In a window saved with start month = end month (see C15) totalDays is   *)
(* 0: the visual width is Infinity, the left edge of a record starting on  *)
(* the window start is NaN, and both elements carry NaN for a width.       *)
(***************************************************************************)
C24_VisibleHasSegment ==
    (rendered /\ Positive(row.visualWidth))
       => \E i \in 1 .. Len(row.segs) : Positive(row.segs[i].width)

(***************************************************************************)
(* C25 -- the renewal date reached by stepping equals the closed form:     *)
(* after k loop steps it is startDate advanced by k cycle periods in a     *)
(* single addition (addMonths(startDate, k) or addMonths(startDate, 12k)). *)
(* Each addMonths clamps to the month's length and the next step starts    *)
(* from the clamped day, so a start on the 29th, 30th or 31st drifts.      *)
(***************************************************************************)
C25_IteratedIsClosedForm ==
    (C3_Started /\ row.loopCount < MAX_LOOPS)
       => row.nextRenewal
            = addMonths(sub.startDate, row.loopCount * PeriodMonths(sub.cycle))

(***************************************************************************)
(* C30 -- Summary and Timeline agree on which services are ongoing: a      *)
(* service for which the Timeline draws a segment covering today, in a     *)
(* window that contains today, contributes its monthly and yearly amount   *)
(* to the Summary totals, an auto-renewing service whose endDate is in the *)
(* past included.                                                          *)
(* Summary counts a service as active only when endDate is null or later   *)
(* than now, whatever autoRenew says, while the row extends the bar of an  *)
(* auto-renewing record to the end of the window.                          *)
(***************************************************************************)
C30_OngoingAgree ==
    LET service == MkSub(1, "service", NewAmount, sub.cycle, sub.startDate,
                         sub.endDate, sub.autoRenew, 0)
        stats == Summary(<<service>>, today)
    IN (/\ Drawable
        /\ sub.autoRenew
        /\ DateLE(CurRange.start, today)
        /\ DateLE(today, CurRange.end)
        /\ \E i \in 1 .. Len(row.segs) : CoversToday(row.segs[i]))
          => (stats.monthly12 > 0 /\ stats.yearly > 0)

(***************************************************************************)
(* C26 -- in the form state of EditModal, an edit that changes the start   *)
(* date, changes the billing cycle or switches Auto-Renewal on leaves,     *)
(* while Auto-Renewal is on and the start date is valid, endDate =         *)
(* startDate plus exactly one cycle period (1 month for MONTHLY, 12 for    *)
(* YEARLY); switching Auto-Renewal off leaves endDate unchanged, and       *)
(* clearing the start date field leaves the whole form state unchanged.    *)
(***************************************************************************)
C26_EndFollowsCycle ==
    [][/\ ((\/ \E value \in DateInputs :
                 /\ isValid(ParseDateInput(value))
                 /\ handleDateChange("startDate", value)
            \/ \E newCycle \in BillingCycle : handleCycleChange(newCycle)
            \/ handleAutoRenewChange(TRUE))
           /\ formData'.autoRenew
           /\ isValid(formData'.startDate))
          => formData'.endDate
               = addMonths(formData'.startDate, PeriodMonths(formData'.cycle))
       /\ handleAutoRenewChange(FALSE) => formData'.endDate = formData.endDate
       /\ handleDateChange("startDate", NullDate) => formData' = formData]_vars

\* a form switched to the yearly cycle whose start date was then changed
C26_Witness ==
    /\ isModalOpen
    /\ formData.autoRenew
    /\ formData.cycle = YEARLY
    /\ editingSub.cycle = MONTHLY
    /\ formData.startDate # editingSub.startDate
    /\ formData.endDate = addMonths(formData.startDate, 12)

\* no two records of the collection carry the same order value
OrdersDistinct(docs) == \A x, y \in docs : x.id # y.id => x.order # y.order

\* the ids of the records a step removes from the collection
Removed == IdsOf(store) \ IdsOf(store')

(***************************************************************************)
(* C27 -- after any sequence of add-subscription, add-category and         *)
(* confirmed-delete operations from a store whose order values are unique, *)
(* the persisted order values stay pairwise distinct: a step taken when    *)
(* the displayed list is up to date (no snapshot is due) on a collection   *)
(* with distinct order values leaves a collection with distinct order      *)
(* values.                                                                 *)
(***************************************************************************)
C27_OrdersStayDistinct ==
    [][(OrdersDistinct(store) /\ ~snapshotDue) => OrdersDistinct(store')]_vars

(***************************************************************************)
(* C28 -- a record is removed from the store only by a Delete confirmation *)
(* that follows a delete request, and the record removed is the one named  *)
(* by the most recent delete request; Cancel or Escape in the confirmation *)
(* dialog removes nothing, and a confirmation issued after a successful    *)
(* delete without a new request removes nothing.                           *)
(***************************************************************************)
C28_DeleteOnlyRequested ==
    [][/\ Removed # {}
          => /\ \E ok \in BOOLEAN : ConfirmDelete(ok)
             /\ Removed = {deleteLog.requested}
             /\ store' = store \ {DocOf(store, deleteLog.requested)}
       /\ DeleteModalClose => store' = store
       /\ ((\E ok \in BOOLEAN : ConfirmDelete(ok)) /\ deleteLog.served)
          => store' = store]_vars

\* a record was deleted on confirmation, and a later confirmation without a
\* new request has left the remaining records alone
C28_Witness ==
    /\ lastOp = "delete_skipped"
    /\ deleteLog.served
    /\ deleteLog.requested \in IdsOf(store)
    /\ \E id \in 1 .. MaxDeleteDocs : id \notin IdsOf(store)

(***************************************************************************)
(* C29 -- once a handleReorder call has completed, its batch committed or  *)
(* refused, and no snapshot is left to deliver, the displayed sequence of  *)
(* records is the stored records sorted by their persisted order value.    *)
(***************************************************************************)
C29_ViewFollowsStore ==
    (pending = <<>> /\ ~snapshotDue) => subscriptions = SortByOrder(store)

\* a refused reorder of two rows, the list back in the stored order
C29_Witness ==
    /\ lastOp = "commit_failed"
    /\ pending = <<>>
    /\ ~snapshotDue
    /\ Len(subscriptions) >= 2
    /\ subscriptions = SortByOrder(store)

====
